---- MODULE Spec2Model ----
(***************************************************************************)
(* Model of the news scraper (scraper.py, app.py).                         *)
(*                                                                         *)
(* Text is modelled as a sequence of tokens: a URL is a sequence such as   *)
(* <<"https", ":", "//", "tsn.ua", "/groshi">>, a category name a sequence *)
(* of characters, a visible text a sequence of words.  A parsed page is a  *)
(* record of the element lists the selectors of scraper.py pick from it.   *)
(* Every Python function is an operator from the engine state s (the       *)
(* fields of the Scraper object plus the per-call counters) to a record    *)
(* [s, x, v]: the new engine state, how the call ended ("ok", "raise" for  *)
(* an exception, "exit" for sys.exit) and the returned value.              *)
(***************************************************************************)
EXTENDS Integers, Sequences, FiniteSets, TLC

VARIABLES
    web,            \* the page contents of the two sites during the run
    limit,          \* Scraper.limit
    driver,         \* Scraper.driver: the browser session and where it is
    category_coll,  \* MongoDB collection 'categories'
    articles_coll,  \* MongoDB collection 'articles'
    image_storage,  \* file names written to image_storage/
    nextId,         \* next ObjectId pymongo hands out
    alive,          \* FALSE once sys.exit(1) ended the process
    calls,          \* number of requests served so far
    last            \* the last request served and how it ended

vars == <<web, limit, driver, category_coll, articles_coll, image_storage,
          nextId, alive, calls, last>>

-----------------------------------------------------------------------------
(* Bounds of the model *)

MaxLimit == 2       \* limit ranges over 1..MaxLimit
MaxItems == 3       \* anchors on a ukr.net listing page
MaxCards == 2       \* article cards on a tsn.ua listing page
MaxCats == 2        \* category elements on the tsn.ua index page
MaxCalls == 2       \* requests served by one process

-----------------------------------------------------------------------------
(* Python values *)

\* Python's None (an attribute that is absent)
None == <<"<None>">>
\* a local variable that was never assigned
Unbound == <<"<unbound>">>
\* a dict key that was never set
NoKey == <<"<nokey>">>
\* a dict that pymongo has not given an _id yet
NoId == 0

\* str(x): str(None) is the text 'None'
PyStr(x) == IF x = None THEN <<"None">> ELSE x

\* s.startswith(p)
StartsWith(s, p) == Len(s) >= Len(p) /\ SubSeq(s, 1, Len(p)) = p

\* s.endswith(p)
EndsWith(s, p) == Len(s) >= Len(p) /\ SubSeq(s, Len(s) - Len(p) + 1, Len(s)) = p

\* s.startswith((p1, p2, ...))
StartsWithAny(s, ps) == \E p \in ps : StartsWith(s, p)

\* sub in s, for a host name: the tokens that contain it
TokensContaining(sub) ==
    IF sub = "ukr.net" THEN {"ukr.net", "www.ukr.net"}
    ELSE IF sub = "tsn.ua" THEN {"tsn.ua", "img.tsn.ua"}
    ELSE {sub}

Contains(s, sub) == \E i \in 1..Len(s) : s[i] \in TokensContaining(sub)

\* c.lower() for one character
LowerChar(c) ==
    CASE c = "N" -> "n"
      [] c = "E" -> "e"
      [] c = "W" -> "w"
      [] c = "S" -> "s"
      [] OTHER -> c

\* s.lower()
Lower(s) == [i \in 1..Len(s) |-> LowerChar(s[i])]

RECURSIVE LStrip(_)
LStrip(s) == IF s # <<>> /\ Head(s) = " " THEN LStrip(Tail(s)) ELSE s

RECURSIVE RStrip(_)
RStrip(s) ==
    IF s # <<>> /\ s[Len(s)] = " " THEN RStrip(SubSeq(s, 1, Len(s) - 1)) ELSE s

\* s.strip()
Strip(s) == RStrip(LStrip(s))

\* re.compile(pat).search(text): pat occurs in text
Search(pat, text) ==
    \E i \in 1..(Len(text) - Len(pat) + 1) : SubSeq(text, i, i + Len(pat) - 1) = pat

RECURSIVE JoinWith(_, _)
\* sep.join(parts)
JoinWith(sep, parts) ==
    IF parts = <<>> THEN <<>>
    ELSE IF Len(parts) = 1 THEN parts[1]
    ELSE parts[1] \o sep \o JoinWith(sep, Tail(parts))

\* the index of the last token t of s, 0 if there is none
LastIndexOf(s, t) ==
    IF \E i \in 1..Len(s) : s[i] = t
    THEN CHOOSE i \in 1..Len(s) : s[i] = t /\ \A j \in (i + 1)..Len(s) : s[j] # t
    ELSE 0

\* the index of the first token t of s, Len(s) + 1 if there is none
FirstIndexOf(s, t) ==
    IF \E i \in 1..Len(s) : s[i] = t
    THEN CHOOSE i \in 1..Len(s) : s[i] = t /\ \A j \in 1..(i - 1) : s[j] # t
    ELSE Len(s) + 1

\* image_url.split('/')[-1].split("?")[0]
LocalFilename(image_url) ==
    LET seg == SubSeq(image_url, LastIndexOf(image_url, "/") + 1, Len(image_url))
    IN  SubSeq(seg, 1, FirstIndexOf(seg, "?") - 1)

-----------------------------------------------------------------------------
(* The two sites *)

HTTPS == <<"https", ":">>

\* NewsProvider('tsn.ua', 'https://tsn.ua/')
tsn_resource == [name |-> "tsn.ua", url |-> <<"https", ":", "//", "tsn.ua", "/">>]
\* NewsProvider('ukr.net', 'https://www.ukr.net/')
ukrnet_resource ==
    [name |-> "ukr.net", url |-> <<"https", ":", "//", "www.ukr.net", "/">>]

\* a page: what each selector of scraper.py finds in it
\*   cats   the category elements of an index page (href, text)
\*   items  the anchors of a listing page (href, text, src of the img child)
\*   h1     the 'div.c-post-meta h1' elements, each the list of its contents
\*   paras  texts of the 'div.e-content p' elements
\*   figure whether a 'figure.js-lightgallery' element is present
EmptyPage == [cats |-> <<>>, items |-> <<>>, h1 |-> <<>>, paras |-> <<>>, figure |-> FALSE]

\* an anchor without an img child
NoImg == <<"<noimg>">>

Anchor(href, text) == [href |-> href, text |-> text, src |-> NoImg]
Card(href, src) == [href |-> href, text |-> None, src |-> src]
CatElem(href, text) == [href |-> href, text |-> text]

TsnUrl(path) == <<"https", ":", "//", "tsn.ua">> \o path
UkrUrl(path) == <<"https", ":", "//", "www.ukr.net">> \o path

\* the listing pages of the two sites
TsnListingPath == <<"/groshi">>
UkrListingPath == <<"/news">>

\* the article pages of tsn.ua: one with a title, a second with another title,
\* one without an h1 element, one with a figure.js-lightgallery element
TsnArticles ==
    [p \in {"/t1", "/t2", "/nt", "/fig"} |->
        CASE p = "/t1" -> [EmptyPage EXCEPT !.h1 = << << <<"T1">> >> >>,
                                            !.paras = << <<"one">>, <<"two">> >>]
          [] p = "/t2" -> [EmptyPage EXCEPT !.h1 = << << <<"T">>, <<"2">> >> >>,
                                            !.paras = << <<"three">> >>]
          [] p = "/nt" -> [EmptyPage EXCEPT !.paras = << <<"four">> >>]
          [] p = "/fig" -> [EmptyPage EXCEPT !.h1 = << << <<"T3">> >> >>, !.figure = TRUE]]

\* image URLs: one that downloads, one whose download fails, an inline data
\* URI, and a second URL with the file name of the first
ImgOk == <<"https", ":", "//", "img.tsn.ua", "/", "thumbs", "/", "pic.jpg", "?", "w=100">>
ImgDead == <<"https", ":", "//", "down.tsn.ua", "/", "gone.jpg">>
ImgData == <<"data:image", "/png;base64,AAAA">>
ImgSame == <<"https", ":", "//", "img.tsn.ua", "/", "pic.jpg">>

\* what the server answers for url: [status, page]
Response(url) ==
    IF url = tsn_resource.url THEN [status |-> 200, page |-> [EmptyPage EXCEPT !.cats = web.tsnIndex]]
    ELSE IF url = ukrnet_resource.url THEN [status |-> 200, page |-> [EmptyPage EXCEPT !.cats = web.ukrIndex]]
    ELSE IF url = TsnUrl(TsnListingPath) THEN [status |-> 200, page |-> [EmptyPage EXCEPT !.items = web.tsnListing]]
    ELSE IF url = UkrUrl(UkrListingPath) THEN [status |-> 200, page |-> [EmptyPage EXCEPT !.items = web.ukrListing]]
    ELSE IF /\ Len(url) = 6
            /\ SubSeq(url, 1, 4) = TsnUrl(<<>>)
            /\ url[5] \in DOMAIN TsnArticles
            /\ url[6] = ".html"
         THEN [status |-> 200, page |-> TsnArticles[url[5]]]
    ELSE [status |-> 404, page |-> EmptyPage]

\* a URL with a scheme and a host, which requests and the browser can open
HasHost(url) ==
    /\ Len(url) >= 4
    /\ url[1] \in {"http", "https"}
    /\ url[2] = ":"
    /\ url[3] = "//"

-----------------------------------------------------------------------------
(* Results of a call *)

Ok(s, v) == [s |-> s, x |-> "ok", v |-> v]
Raise(s, exc) == [s |-> s, x |-> "raise", v |-> exc]
Exit(s) == [s |-> s, x |-> "exit", v |-> <<>>]
\* return False
ReturnFalse(s) == [s |-> s, x |-> "false", v |-> <<>>]

\* the page of a freshly started browser session
AboutBlank == <<"data:,">>

-----------------------------------------------------------------------------
(* Scraper *)

\* init_webdriver: a new headless Chrome session, on its start page
init_webdriver(session) == [session |-> session, at |-> AboutBlank]

\* init_collection: drop the collection if it exists, return it empty
init_collection(coll) == <<>>

\* driver.page_source: the DOM of the page the session is on
page_source(d) == IF d.at = AboutBlank THEN EmptyPage ELSE Response(d.at).page

\* insert_one_to_collection without its except clause: a failed write raises
insert_one_unguarded(s, data, e) ==
    LET n == s.ins + 1
        doc == IF data._id = NoId THEN [data EXCEPT !._id = s.nextId] ELSE data
        dup == \E i \in 1..Len(s.articles_coll) : s.articles_coll[i]._id = doc._id
        failed == n = e.failAt \/ dup
        s1 == [s EXCEPT !.ins = n,
                        !.nextId = IF data._id = NoId THEN @ + 1 ELSE @,
                        !.articles_coll = IF failed THEN @ ELSE Append(@, doc),
                        !.attempts = Append(@, [coll |-> "articles", docs |-> <<doc>>,
                                                failed |-> failed])]
    IN  IF failed THEN Raise(s1, "PyMongoError") ELSE Ok(s1, doc)

\* insert_one_to_collection, on the articles collection.  pymongo gives the
\* dict an _id if it has none (the caller's dict is changed), then writes it;
\* a write that fails (the failAt-th insert of the request, or an _id that
\* is already stored) raises a PyMongoError, which is logged and swallowed.
\* v is the dict as the call leaves it.
insert_one_to_collection(s, data, e) ==
    LET n == s.ins + 1
        doc == IF data._id = NoId THEN [data EXCEPT !._id = s.nextId] ELSE data
        dup == \E i \in 1..Len(s.articles_coll) : s.articles_coll[i]._id = doc._id
        failed == n = e.failAt \/ dup
    IN  Ok([s EXCEPT !.ins = n,
                     !.nextId = IF data._id = NoId THEN @ + 1 ELSE @,
                     !.articles_coll = IF failed THEN @ ELSE Append(@, doc),
                     !.attempts = Append(@, [coll |-> "articles", docs |-> <<doc>>,
                                             failed |-> failed])],
           doc)

\* insert_many_to_collection on a collection that is cleared first
insert_many_replacing(s, data, e) ==
    LET n == s.ins + 1
        failed == n = e.failAt \/ data = <<>>
    IN  Ok([s EXCEPT !.ins = n,
                     !.category_coll = IF failed THEN @ ELSE data,
                     !.attempts = Append(@, [coll |-> "categories", docs |-> data,
                                             failed |-> failed])],
           None)

\* insert_many_to_collection, on the categories collection.  An empty list
\* makes pymongo raise TypeError, a failed write a PyMongoError; both are
\* logged and swallowed.
insert_many_to_collection(s, data, e) ==
    LET n == s.ins + 1
        failed == n = e.failAt \/ data = <<>>
    IN  Ok([s EXCEPT !.ins = n,
                     !.category_coll = IF failed THEN @ ELSE @ \o data,
                     !.attempts = Append(@, [coll |-> "categories", docs |-> data,
                                             failed |-> failed])],
           None)

\* download_image: requests.get raises when the host cannot be reached;
\* otherwise the body is written to image_storage/<local file name>
download_image(s, image_url) ==
    IF image_url = ImgDead \/ ~HasHost(image_url)
    THEN Raise(s, "RequestException")
    ELSE Ok([s EXCEPT !.image_storage = @ \cup {LocalFilename(image_url)}], None)

\* get_request_content: requests.get; an HTTP error status ends the process
\* (sys.exit); a URL without a host makes requests raise InvalidURL
get_request_content(s, url) ==
    LET r == Response(url)
        s1 == [s EXCEPT !.log = Append(@, [url |-> url, mode |-> "static",
                                           faulted |-> ~HasHost(url), at |-> url])]
    IN  IF ~HasHost(url) THEN Raise(s1, "InvalidURL")
        ELSE IF r.status = 200 THEN Ok(s1, r.page)
        ELSE Exit(s1)

\* get_webdriver_content: driver.get(url); on a WebDriverException (the
\* faultAt-th navigation of the request, or a URL the browser cannot open) a
\* new session is started; then page_source of the current session
get_webdriver_content(s, url, e) ==
    LET n == s.nav + 1
        faulted == n = e.faultAt \/ ~HasHost(url)
        d == IF faulted THEN init_webdriver(s.driver.session + 1)
             ELSE [s.driver EXCEPT !.at = url]
        page == page_source(d)
    IN  Ok([s EXCEPT !.nav = n, !.driver = d,
                     !.log = Append(@, [url |-> url, mode |-> "dynamic",
                                        faulted |-> faulted, at |-> d.at])],
           page)

\* get_page_content: static for tsn.ua, the browser for everything else
get_page_content(s, resource_name, url, e) ==
    IF resource_name = "tsn.ua" THEN get_request_content(s, url)
    ELSE get_webdriver_content(s, url, e)

\* parse_page_content: the page, parsed
parse_page_content(s, resource_name, url, e) == get_page_content(s, resource_name, url, e)

RECURSIVE CategoriesOf(_)
\* the for loop of gather_categories over the selected elements
CategoriesOf(all_categories) ==
    IF all_categories = <<>> THEN <<>>
    ELSE LET item == Head(all_categories)
             link == PyStr(item.href)
             rest == CategoriesOf(Tail(all_categories))
         IN  IF StartsWith(link, <<"javascript">>) THEN rest
             ELSE <<[link |-> IF ~StartsWith(link, HTTPS) THEN HTTPS \o link ELSE link,
                     name |-> Strip(item.text)]>> \o rest

\* gather_categories
gather_categories(s, url, resource_name, e) ==
    LET f == parse_page_content(s, resource_name, url, e)
    IN  IF f.x # "ok" THEN f
        ELSE LET categories == CategoriesOf(f.v.cats)
                 ins == insert_many_to_collection(f.s, categories, e)
             IN  IF ins.x # "ok" THEN ins ELSE Ok(ins.s, categories)

tsn_categories(s, e) == gather_categories(s, tsn_resource.url, tsn_resource.name, e)

ukrnet_categories(s, e) == gather_categories(s, ukrnet_resource.url, ukrnet_resource.name, e)

\* if count <= self.limit, in the article loops
WithinLimit(count) == count <= limit

\* a dict with none of the article keys set
EmptyDict ==
    [link |-> NoKey, category |-> NoKey, title |-> NoKey, content |-> NoKey,
     images |-> NoKey, _id |-> NoId]

RECURSIVE UkrnetLoop(_, _, _, _, _, _)
\* the for loop of get_ukrnet_articles
UkrnetLoop(s, all_articles, count, result, category_name, e) ==
    IF all_articles = <<>> THEN Ok(s, result)
    ELSE IF WithinLimit(count)
    THEN LET item == Head(all_articles)
             link == item.href
         IN  IF link = None THEN Raise(s, "AttributeError")
             ELSE LET article == [EmptyDict EXCEPT
                                     !.link = IF StartsWith(link, <<"//">>) THEN Tail(link) ELSE link,
                                     !.category = category_name,
                                     !.content = item.text]
                      ins == insert_one_to_collection(s, article, e)
                  IN  IF ins.x # "ok" THEN ins
                      ELSE UkrnetLoop(ins.s, Tail(all_articles), count + 1,
                                      Append(result, ins.v), category_name, e)
    ELSE Ok(s, result)

\* get_ukrnet_articles
get_ukrnet_articles(s, category_name, url, e) ==
    LET f == parse_page_content(s, ukrnet_resource.name, url, e)
    IN  IF f.x # "ok" THEN f
        ELSE UkrnetLoop(f.s, f.v.items, 0, <<>>, category_name, e)

RECURSIVE TsnFirstPass(_, _, _, _, _)
\* the first for loop of get_tsn_articles, over the listing's cards
TsnFirstPass(s, all_articles, count, data, category_name) ==
    IF all_articles = <<>> THEN Ok(s, data)
    ELSE IF WithinLimit(count)
    THEN LET item == Head(all_articles)
             link == item.href
             img_src == item.src
         IN  IF link = None THEN Raise(s, "AttributeError")
             ELSE IF EndsWith(link, <<".html">>)
             THEN LET keep == /\ img_src # None
                              /\ ~StartsWithAny(img_src, {<<"data:image">>, <<"javascript">>})
                      d == IF keep THEN download_image(s, img_src) ELSE Ok(s, None)
                      article == [link |-> link, category |-> category_name,
                                  img_src |-> IF keep THEN img_src ELSE NoKey]
                  IN  IF d.x # "ok" THEN d
                      ELSE TsnFirstPass(d.s, Tail(all_articles), count + 1,
                                        Append(data, article), category_name)
             ELSE TsnFirstPass(s, Tail(all_articles), count + 1, data, category_name)
    ELSE Ok(s, data)

RECURSIVE TsnSecondPass(_, _, _, _, _)
\* the second for loop of get_tsn_articles, over the articles of the first.
\* header_text is a local of the function: it keeps its value from one
\* iteration to the next.  article_image is a bs4 Tag, which has no method
\* startswith: the attribute is looked up as a child tag, is None, and the call
\* raises TypeError whenever the figure is present.
TsnSecondPass(s, data, header_text, result, e) ==
    IF data = <<>> THEN Ok(s, result)
    ELSE LET article == Head(data)
             f == parse_page_content(s, tsn_resource.name, article.link, e)
         IN  IF f.x # "ok" THEN f
             ELSE LET new_soup == f.v
                      article_text == JoinWith(<<" ">>, new_soup.paras)
                      header == IF new_soup.h1 # <<>> THEN JoinWith(<<>>, new_soup.h1[1])
                                ELSE header_text
                  IN  IF new_soup.figure THEN Raise(f.s, "TypeError")
                      ELSE IF header = Unbound THEN Raise(f.s, "UnboundLocalError")
                      ELSE LET news_chunk ==
                                   [EmptyDict EXCEPT
                                      !.category = article.category,
                                      !.link = article.link,
                                      !.title = header,
                                      !.content = article_text,
                                      !.images = IF article.img_src # NoKey
                                                 THEN <<article.img_src>> ELSE <<>>]
                               ins == insert_one_to_collection(f.s, news_chunk, e)
                           IN  IF ins.x # "ok" THEN ins
                               ELSE TsnSecondPass(ins.s, Tail(data), header,
                                                  Append(result, ins.v), e)

\* the elements 'div.c-entry-embed a.c-post-img-wrap' selects: the cards
IsCard(item) == item.src # NoImg

\* get_tsn_articles
get_tsn_articles(s, category_name, url, e) ==
    LET f == parse_page_content(s, tsn_resource.name, url, e)
    IN  IF f.x # "ok" THEN f
        ELSE LET p1 == TsnFirstPass(f.s, SelectSeq(f.v.items, IsCard), 0, <<>>, category_name)
             IN  IF p1.x # "ok" THEN p1
                 ELSE TsnSecondPass(p1.s, p1.v, Unbound, <<>>, e)

\* the input as typed, not lowered
NameAsTyped(category_name) == category_name

\* category_name.decode('utf-8').lower()
NormalizedName(category_name) == Lower(category_name)

\* item['name'] == category_name, the item's name not lowered
NameMatchesExactly(item, category_name) == item.name = category_name

\* item['name'].lower() == category_name
NameMatches(item, category_name) == Lower(item.name) = category_name

\* search_by_category
search_by_category(s, category_input, e) ==
    LET category_name == NormalizedName(category_input)
        t == tsn_categories(s, e)
    IN  IF t.x # "ok" THEN t
        ELSE LET u == ukrnet_categories(t.s, e)
             IN  IF u.x # "ok" THEN u
                 ELSE LET category_list == t.v \o u.v
                          hits == {i \in 1..Len(category_list) :
                                      NameMatches(category_list[i], category_name)}
                      IN  IF hits = {} THEN ReturnFalse(u.s)
                          ELSE LET first == CHOOSE i \in hits : \A j \in hits : i <= j
                                   link == category_list[first].link
                               IN  IF Contains(link, "ukr.net")
                                   THEN get_ukrnet_articles(u.s, category_name, link, e)
                                   ELSE get_tsn_articles(u.s, category_name, link, e)

RECURSIVE TextInner(_, _, _, _, _)
\* the inner for loop of website_search_by_text: every match writes into the
\* one dict created for the category link and inserts that dict; v is the dict
\* as the loop leaves it
TextInner(s, all_articles, article, link, e) ==
    IF all_articles = <<>> THEN Ok(s, article)
    ELSE LET item == Head(all_articles)
             a == [article EXCEPT !.link = item.href,
                                  !.category = link.name,
                                  !.content = Strip(item.text)]
             ins == insert_one_to_collection(s, a, e)
         IN  IF ins.x # "ok" THEN ins
             ELSE TextInner(ins.s, Tail(all_articles), ins.v, link, e)

RECURSIVE website_search_by_text(_, _, _, _, _)
\* website_search_by_text; result holds, for each match, a reference to the
\* dict of its category link, so every entry of one category reads as that
\* dict reads at the end
website_search_by_text(s, text_searched, category_links, result, e) ==
    IF category_links = <<>> THEN Ok(s, result)
    ELSE LET link == Head(category_links)
             f == IF Contains(link.link, tsn_resource.name)
                  THEN parse_page_content(s, tsn_resource.name, link.link, e)
                  ELSE parse_page_content(s, ukrnet_resource.name, link.link, e)
         IN  IF f.x # "ok" THEN f
             ELSE LET Hit(item) == item.text # None /\ Search(text_searched, item.text)
                      all_articles == SelectSeq(f.v.items, Hit)
                      inner == TextInner(f.s, all_articles, EmptyDict, link, e)
                  IN  IF inner.x # "ok" THEN inner
                      ELSE website_search_by_text(inner.s, text_searched, Tail(category_links),
                               result \o [j \in 1..Len(all_articles) |-> inner.v], e)

\* search_by_text
search_by_text(s, text, e) ==
    LET u == ukrnet_categories(s, e)
    IN  IF u.x # "ok" THEN u
        ELSE LET t == tsn_categories(u.s, e)
             IN  IF t.x # "ok" THEN t
                 ELSE website_search_by_text(t.s, text, u.v \o t.v, <<>>, e)

-----------------------------------------------------------------------------
(* The page contents of the runs *)

\* the runs of at most n consecutive elements of the sequence p
Windows(p, n) ==
    { SubSeq(p, w[1], w[2]) :
          w \in { w \in (1..(Len(p) + 1)) \X (0..Len(p)) :
                      w[2] - w[1] + 1 >= 0 /\ w[2] - w[1] + 1 <= n } }

Sport == <<"S", "p", "o", "r", "t">>
News == <<"N", "e", "w", "s">>
PaddedNEWS == <<" ", "N", "E", "W", "S", " ">>

\* category elements of the tsn.ua index page: names that differ in letter
\* case and padding, and every form of href
TsnCatElems ==
    << CatElem(TsnUrl(TsnListingPath), News),
       CatElem(TsnUrl(<<"/gone">>), PaddedNEWS),
       CatElem(None, Sport),
       CatElem(<<"javascript", ":", "void(0)">>, Sport),
       CatElem(<<"//", "tsn.ua">> \o TsnListingPath, Sport),
       CatElem(TsnUrl(TsnListingPath), Sport),
       CatElem(<<"http", ":", "//", "tsn.ua">> \o TsnListingPath, Sport),
       CatElem(TsnListingPath, Sport) >>

DefTsnIndex == << CatElem(TsnUrl(TsnListingPath), Sport) >>
DefUkrIndex == << CatElem(<<"//", "www.ukr.net">> \o UkrListingPath, News) >>

\* the i-th anchor of the ukr.net listing page, of one of three kinds
UkrItem(kind, i) ==
    CASE kind = "rel" -> Anchor(<<"//", "www.ukr.net", "/news/", ToString(i)>>,
                                <<"2024", "budget", "plan">>)
      [] kind = "abs" -> Anchor(UkrUrl(<<"/news/", ToString(i)>>),
                                <<" ", "budget", "cuts", ToString(i), " ">>)
      [] kind = "off" -> Anchor(<<"//", "www.ukr.net", "/news/", ToString(i)>>,
                                <<"weather">>)

UkrKinds == <<"rel", "abs", "off">>

\* listing pages of every length up to MaxItems, the kinds taking turns
UkrListings ==
    { [i \in 1..n |-> UkrItem(UkrKinds[((i - 1) % Len(UkrKinds)) + 1], i)] : n \in 0..MaxItems }

DefUkrListing == << UkrItem("rel", 1) >>

\* cards of the tsn.ua listing page: the article each links to and its thumbnail
TsnCards ==
    << Card(TsnUrl(<<"/t1", ".html">>), ImgOk),
       Card(TsnUrl(<<"/nt", ".html">>), ImgOk),
       Card(TsnUrl(<<"/t2", ".html">>), ImgDead),
       Card(TsnUrl(<<"/video">>), ImgOk),
       Card(TsnUrl(<<"/t2", ".html">>), ImgSame),
       Card(TsnUrl(<<"/t1", ".html">>), None),
       Card(TsnUrl(<<"/fig", ".html">>), ImgOk),
       Card(TsnUrl(<<"/t1", ".html">>), ImgData),
       Card(TsnUrl(<<"/nt", ".html">>), ImgOk) >>

\* the title link every tsn.ua listing page carries besides its cards
TsnTitleLink == Anchor(TsnUrl(<<"/t1", ".html">>), <<"tsn", "budget", "vote">>)

TsnListings == { cards \o <<TsnTitleLink>> : cards \in Windows(TsnCards, MaxCards) }

DefTsnListing == << Card(TsnUrl(<<"/t1", ".html">>), ImgOk), TsnTitleLink >>

Web(ti, ui, tl, ul) == [tsnIndex |-> ti, ukrIndex |-> ui, tsnListing |-> tl, ukrListing |-> ul]

\* the index pages vary
IndexWebs == { Web(ti, DefUkrIndex, DefTsnListing, DefUkrListing) : ti \in Windows(TsnCatElems, MaxCats) }
\* the ukr.net listing page varies
UkrWebs == { Web(DefTsnIndex, DefUkrIndex, DefTsnListing, ul) : ul \in UkrListings }
\* the tsn.ua listing page varies
TsnWebs == { Web(DefTsnIndex, DefUkrIndex, tl, DefUkrListing) : tl \in TsnListings }

\* what the user types into the category form, and into the text form
CategoryInputs == { <<"N", "E", "W", "S">>, <<"n", "e", "w", "s">>, Sport, <<"n", "o", "p", "e">>, <<>> }
TextInputs == { <<"budget">>, <<"zzz">> }

\* the request's faults: which navigation of the browser raises, which insert fails
MaxFault == 1
MaxFail == 3
\* (at most one of the two in a request)
Envs == { e \in [faultAt : 0..MaxFault, failAt : 0..MaxFail] : e.faultAt = 0 \/ e.failAt = 0 }

-----------------------------------------------------------------------------
(* The process *)

\* the Scraper object, with the counters and logs of the request being served
Engine ==
    [driver |-> driver, category_coll |-> category_coll, articles_coll |-> articles_coll,
     image_storage |-> image_storage, nextId |-> nextId,
     nav |-> 0, ins |-> 0, log |-> <<>>, attempts |-> <<>>]

NoRequest ==
    [op |-> "init", input |-> <<>>, x |-> "ok", v |-> <<>>, log |-> <<>>, attempts |-> <<>>, view |-> "none"]

\* Scraper.__init__ (app.py creates the one Scraper when it is loaded), for
\* page contents from webs and limits from limits
Constructed(webs, limits) ==
    /\ web \in webs
    /\ limit \in limits
    /\ driver = init_webdriver(1)
    /\ category_coll = init_collection("categories")
    /\ articles_coll = init_collection("articles")
    /\ image_storage = {}
    /\ nextId = 1
    /\ alive = TRUE
    /\ calls = 0
    /\ last = NoRequest

InitIndex == Constructed(IndexWebs, {MaxLimit})
InitUkrnet == Constructed(UkrWebs, 1..MaxLimit)
InitTsn == Constructed(TsnWebs, 1..MaxLimit)

\* what a request leaves behind: the engine's fields, and the rendered view.
\* except Exception catches every exception but not SystemExit.
Served(op, input, r) ==
    /\ driver' = r.s.driver
    /\ category_coll' = r.s.category_coll
    /\ articles_coll' = r.s.articles_coll
    /\ image_storage' = r.s.image_storage
    /\ nextId' = r.s.nextId
    /\ alive' = (r.x # "exit")
    /\ calls' = calls + 1
    /\ last' = [op |-> op, input |-> input, x |-> r.x, v |-> r.v,
                log |-> r.s.log, attempts |-> r.s.attempts,
                view |-> CASE r.x \in {"ok", "false"} -> "news_result.html"
                           [] r.x = "raise" -> "error.html"
                           [] r.x = "invalid" -> op \o ".html"
                           [] OTHER -> "none"]
    /\ UNCHANGED <<web, limit>>

\* app.category_search, a POST of the category form
category_search ==
    /\ alive
    /\ calls < MaxCalls
    /\ \E input \in CategoryInputs, e \in Envs :
          Served("category_search", input,
                 IF input = <<>> THEN [s |-> Engine, x |-> "invalid", v |-> <<>>]
                 ELSE search_by_category(Engine, input, e))

\* app.text_search, a POST of the text form
text_search ==
    /\ alive
    /\ calls < MaxCalls
    /\ \E input \in TextInputs, e \in Envs :
          Served("text_search", input, search_by_text(Engine, input, e))

\* the process is started again: app.py builds a new Scraper
Restart ==
    /\ calls > 0
    /\ calls < MaxCalls
    /\ last.op # "init"
    /\ driver' = init_webdriver(driver.session + 1)
    /\ category_coll' = init_collection("categories")
    /\ articles_coll' = init_collection("articles")
    /\ alive' = TRUE
    /\ calls' = calls + 1
    /\ last' = NoRequest
    /\ UNCHANGED <<web, limit, image_storage, nextId>>

Next == category_search \/ text_search \/ Restart

\* the index pages vary
SpecIndex == InitIndex /\ [][Next]_vars
\* the ukr.net listing page and the limit vary
SpecUkrnet == InitUkrnet /\ [][Next]_vars
\* the tsn.ua listing page and the limit vary
SpecTsn == InitTsn /\ [][Next]_vars

-----------------------------------------------------------------------------
(* What the properties speak about *)

\* the last request was a search that reached the engine
WasCategorySearch == last.op = "category_search" /\ last.x # "invalid"
WasTextSearch == last.op = "text_search"

\* the records of a returned sequence, without the _id pymongo added
Fields(a) == [link |-> a.link, category |-> a.category, title |-> a.title,
              content |-> a.content, images |-> a.images]
Articles(v) == [i \in 1..Len(v) |-> Fields(v[i])]

RECURSIVE Flatten(_)
Flatten(seqs) == IF seqs = <<>> THEN <<>> ELSE Head(seqs) \o Flatten(Tail(seqs))

\* the insert calls of a request on one collection
AttemptsOn(l, coll) == SelectSeq(l.attempts, LAMBDA a : a.coll = coll)

\* the categories the request's discovery run found, in discovery order
Discovered(l) == Flatten([i \in 1..Len(AttemptsOn(l, "categories")) |->
                              AttemptsOn(l, "categories")[i].docs])

\* the records the request's inserts stored in a collection
StoredBy(l, coll) ==
    LET ok == SelectSeq(AttemptsOn(l, coll), LAMBDA a : ~a.failed)
    IN  Flatten([i \in 1..Len(ok) |-> ok[i].docs])

\* no navigation of the request's browser raised
NoFault(l) == \A i \in 1..Len(l.log) : l.log[i].mode = "dynamic" => ~l.log[i].faulted

\* the listing page the request fetched after discovery, if it fetched one
FetchedListing(l) == Len(l.log) >= 3

-----------------------------------------------------------------------------
(* C1 *)

\* C1: a search by category returns, and inserts into the articles
\* collection, at most limit Articles, whatever the number of items on the
\* listing page.
C1_AtMostLimit ==
    (WasCategorySearch /\ last.x = "ok") =>
        /\ Len(last.v) <= limit
        /\ Len(AttemptsOn(last, "articles")) <= limit

-----------------------------------------------------------------------------
(* C2 *)

\* C2: a fetch through the browser never returns the content of a session
\* that was not navigated to the requested URL: after a fault the fresh
\* session is navigated to the URL before its page is read.
C2_ReturnsRequestedPage ==
    \A i \in 1..Len(last.log) :
        last.log[i].mode = "dynamic" => last.log[i].at = last.log[i].url

-----------------------------------------------------------------------------
(* C3 *)

\* C3: in tsn.ua article extraction an image whose download fails does not
\* abort the operation: the request never ends with the download's exception.
C3_DownloadFailureIsolated ==
    WasCategorySearch => ~(last.x = "raise" /\ last.v = "RequestException")

-----------------------------------------------------------------------------
(* C5 *)

\* the anchors of the category's listing page whose text matches, as records
HitsOf(c, text) ==
    LET items == IF HasHost(c.link) THEN Response(c.link).page.items ELSE <<>>
        hits == SelectSeq(items, LAMBDA it : it.text # None /\ Search(text, it.text))
    IN  [i \in 1..Len(hits) |->
            [EmptyDict EXCEPT !.link = hits[i].href, !.category = c.name,
                              !.content = Strip(hits[i].text)]]

\* C5: a search by text returns one record per matching anchor, over all
\* discovered categories, each with its own anchor's link and text and the
\* category's name.
C5_OneRecordPerMatch ==
    (WasTextSearch /\ last.x = "ok" /\ NoFault(last)) =>
        Articles(last.v) =
            Articles(Flatten([i \in 1..Len(Discovered(last)) |->
                                  HitsOf(Discovered(last)[i], last.input)]))

-----------------------------------------------------------------------------
(* C6 *)

\* C6: an article page without a title element never makes tsn.ua extraction
\* raise, and the article's title is then omitted or empty, never the title
\* of another article.
C6_MissingTitleTolerated ==
    WasCategorySearch =>
        /\ ~(last.x = "raise" /\ last.v = "UnboundLocalError")
        /\ last.x = "ok" =>
              \A i \in 1..Len(last.v) :
                  (HasHost(last.v[i].link) /\ Response(last.v[i].link).page.h1 = <<>>)
                      => last.v[i].title \in {NoKey, <<>>}

-----------------------------------------------------------------------------
(* C7 *)

\* C7: every stored Category has an absolute, scheme-qualified link that is
\* no script pseudo-URL.
C7_LinksAbsolute ==
    \A i \in 1..Len(category_coll) :
        /\ HasHost(category_coll[i].link)
        /\ ~StartsWith(category_coll[i].link, <<"javascript">>)

-----------------------------------------------------------------------------
(* C4 *)

\* no discovered category has the requested name, letter case ignored
NoSuchCategory(l) ==
    \A i \in 1..Len(Discovered(l)) : Lower(Discovered(l)[i].name) # Lower(l.input)

\* C4: when the requested name equals no discovered category name, letter
\* case ignored, search by category returns False and only then: the result
\* page is rendered (no error), no listing page was fetched after the two
\* index pages and no insert into the articles collection was made.
C4_NotFoundIsDistinct ==
    WasCategorySearch =>
        /\ NoSuchCategory(last) =>
              /\ last.x = "false"
              /\ last.view = "news_result.html"
              /\ ~FetchedListing(last)
              /\ AttemptsOn(last, "articles") = <<>>
        /\ last.x = "false" => NoSuchCategory(last)

\* a search for a name that none of the discovered categories has
C4_Witness ==
    /\ WasCategorySearch
    /\ last.x = "false"
    /\ Len(Discovered(last)) >= 2
    /\ articles_coll = <<>>

-----------------------------------------------------------------------------
(* C8 *)

NoFaults == [faultAt |-> 0, failAt |-> 0]

\* every navigation fault of the request came from the URL, none was injected
NoInjectedFault(l) ==
    \A i \in 1..Len(l.log) :
        (l.log[i].mode = "dynamic" /\ l.log[i].faulted) => ~HasHost(l.log[i].url)

\* the documents the request tried to insert, in order
Attempted(attempts) == [i \in 1..Len(attempts) |-> attempts[i].docs]

\* a search request that reached the engine is served in this step
SearchStep ==
    /\ calls' = calls + 1
    /\ last'.op \in {"category_search", "text_search"}
    /\ last'.x # "invalid"

\* the same request on the same engine, with no insert failing
Unfailing ==
    IF last'.op = "category_search"
    THEN search_by_category(Engine, last'.input, NoFaults)
    ELSE search_by_text(Engine, last'.input, NoFaults)

\* C8: a failed insert is swallowed.  The request ends as it ends with no
\* storage failure, with the same returned records, the same pages fetched
\* and the same documents handed to insert; each collection grows by exactly
\* the documents whose insert did not fail.
C8_InsertFailureSwallowed ==
    [][ (SearchStep /\ NoInjectedFault(last')) =>
            \A r \in {Unfailing} :
                /\ last'.x = r.x
                /\ last'.v = r.v
                /\ last'.log = r.s.log
                /\ Attempted(last'.attempts) = Attempted(r.s.attempts)
                /\ articles_coll' = articles_coll \o StoredBy(last', "articles")
                /\ category_coll' = category_coll \o StoredBy(last', "categories") ]_vars

\* the insert of the first article failed, the second article was extracted
\* and stored, and both were returned
C8_Witness ==
    /\ WasCategorySearch
    /\ last.x = "ok"
    /\ Len(last.v) >= 2
    /\ Len(AttemptsOn(last, "articles")) >= 2
    /\ AttemptsOn(last, "articles")[1].failed
    /\ ~AttemptsOn(last, "articles")[2].failed
    /\ \A i \in 1..Len(articles_coll) : articles_coll[i] # last.v[1]
    /\ \E i \in 1..Len(articles_coll) : articles_coll[i] = last.v[2]

-----------------------------------------------------------------------------
(* C9 *)

\* the discovered categories that have the requested name, letter case ignored
Matching(l) ==
    { i \in 1..Len(Discovered(l)) : Lower(Discovered(l)[i].name) = Lower(l.input) }

\* the browser navigations of the request, each with whether it raised
Navigations(l) ==
    LET dyn == SelectSeq(l.log, LAMBDA f : f.mode = "dynamic")
    IN  [i \in 1..Len(dyn) |-> dyn[i].faulted]

\* the listing page fetched is that of the first matching category
SelectsFirstMatch ==
    (WasCategorySearch /\ Matching(last) # {}) =>
        /\ FetchedListing(last)
        /\ \E i \in Matching(last) :
              /\ \A j \in Matching(last) : i <= j
              /\ last.log[3].url = Discovered(last)[i].link

\* two requests in a row for names that differ in letter case only, with the
\* same navigations raising, end the same way with the same Articles
SameForEitherCase ==
    ( /\ last.op = "category_search" /\ last.x # "invalid"
      /\ SearchStep /\ last'.op = "category_search"
      /\ Lower(last'.input) = Lower(last.input)
      /\ Navigations(last') = Navigations(last) ) =>
        /\ last'.x = last.x
        /\ IF last.x = "ok" THEN Articles(last'.v) = Articles(last.v)
           ELSE last'.v = last.v

\* C9: search by category selects the first discovered category, tsn.ua's
\* before ukr.net's and each in page order, whose name equals the input
\* ignoring letter case; two searches whose inputs differ in letter case only
\* return the same Articles.
C9_CaseInsensitiveFirstMatch == []SelectsFirstMatch /\ [][SameForEitherCase]_vars

\* a second search, typed in upper case, that returned an Article an earlier
\* search had already returned and stored
C9_Witness ==
    /\ calls = 2
    /\ WasCategorySearch
    /\ last.input # Lower(last.input)
    /\ last.x = "ok"
    /\ last.v # <<>>
    /\ \E i \in 1..Len(articles_coll) :
          /\ Fields(articles_coll[i]) = Fields(last.v[1])
          /\ articles_coll[i]._id # last.v[1]._id

-----------------------------------------------------------------------------
(* C10 *)

WasSearch == WasCategorySearch \/ WasTextSearch

====
